---- MODULE Spec2Model ----
(***************************************************************************)
(* Model of the tg-news-bot review workflow: the report store             *)
(* (fetched_events), the grouper, the per-group review sessions kept in   *)
(* bot_data["news_groups"], the scheduling conversation, the              *)
(* scheduled_posts table and the deferred publish jobs.                   *)
(*                                                                         *)
(* Two threads of the bot touch the shared state: the dispatcher thread   *)
(* (commands and callback queries, one handler at a time) and the job     *)
(* thread (the periodic poll and the deferred publish jobs).  The         *)
(* upsert monitor is a separate process writing to the same store.        *)
(***************************************************************************)
EXTENDS Integers, Sequences, FiniteSets, Bags, TLC

(* ---------------------------- bounds ---------------------------------- *)
NumGroups == 2
MaxReports == 2
MaxPosts == 2
MaxKb == 2
MaxTime == 5
MaxRows == 4

(* Abstraction of the wall clock: a day of DayLen minutes, SubTicks clock *)
(* ticks per minute, the three slot instants at minute offsets of a day.  *)
DayLen == 4
SubTicks == 2
MorningSlot == 1
LunchSlot == 2
EveningSlot == 3

Groups == 1..NumGroups
ReportIds == 1..MaxReports
Invokers == {"poll", "cmd"}

VARIABLES
    now,              \* wall clock, in ticks
    up,               \* the bot process is running
    fetched_events,   \* table fetched_events: event_id -> row
    scheduled_posts,  \* table scheduled_posts: sequence of rows, id = index
    news_groups,      \* bot_data["news_groups"]: group_id -> session
    user_data,        \* context.user_data of the operator (a dict)
    conv,             \* state of the scheduling ConversationHandler
    slots,            \* time strings shown on the slot keyboard
    kb,               \* per group: messages showing the decision keyboard
    jobs,             \* job queue: bag of deferred publish jobs
    gpc,              \* per grouper invocation: position in the code
    gids,             \* per invocation: group ids still to examine
    gfiltered,        \* per invocation: filtered group ids still to fetch
    groups,           \* per invocation: the mapping being built / processed
    fired,            \* history: the deferred jobs that have run, with outcome
    last              \* history: the last step taken and its outcome

vars == <<now, up, fetched_events, scheduled_posts, news_groups, user_data,
          conv, slots, kb, jobs, gpc, gids, gfiltered, groups, fired, last>>

store == <<fetched_events, scheduled_posts>>
grouperVars == <<gpc, gids, gfiltered, groups>>
convVars == <<user_data, conv, slots>>

(* ------------------------- editor / image results --------------------- *)
NoPost == [present |-> FALSE, title |-> "", body |-> "", illustration |-> ""]
Post(t, b, i) == [present |-> TRUE, title |-> t, body |-> b, illustration |-> i]

\* Reply texts of the provider.
ApproveText1 ==
    "{\"resolution\":\"approve\",\"post\":{\"title\":\"T1\",\"body\":\"B1 long body\",\"illustration\":\"P1\"}}"
ApproveText2 ==
    "{\"resolution\":\"approve\",\"post\":{\"title\":\"T2\",\"body\":\"B2 long body\",\"illustration\":\"\"}}"
NoTitleText ==
    "{\"resolution\":\"approve\",\"post\":{\"title\":\"\",\"body\":\"B1 long body\",\"illustration\":\"P1\"}}"
NoPostText == "{\"resolution\":\"approve\",\"reason\":\"the post object was left out\"}"
DenyReasonText == "{\"resolution\":\"deny\",\"reason\":\"nothing new in these reports\"}"
DenyText == "{\"resolution\":\"deny\"}"
ProseText == "These reports describe nothing that could be turned into a post."
\* the reply of the repair scenario: the title has no closing quote
UnterminatedTitleText ==
    "{\"resolution\": \"approve\", \"post\": {\"title\": \"X, \"body\": \"Y\"}}"

\* ---- str methods used by call_editor_api, on texts ---------------------
\* text[i - 1], or "" past either end
Ch(s, i) == IF i >= 1 /\ i <= Len(s) THEN SubSeq(s, i, i) ELSE ""
\* text[i - 1:]
From(s, i) == IF i > Len(s) THEN "" ELSE SubSeq(s, i, Len(s))

Least(S) == CHOOSE j \in S : \A k \in S : j <= k
Greatest(S) == CHOOSE j \in S : \A k \in S : j >= k

\* the first place from i on whose character is in chars (is not in
\* chars), or Len(s) + 1
next_in(s, i, chars) ==
    Least({j \in i..Len(s) : Ch(s, j) \in chars} \cup {Len(s) + 1})
next_not_in(s, i, chars) ==
    Least({j \in i..Len(s) : Ch(s, j) \notin chars} \cup {Len(s) + 1})

startswith(s, p) == Len(s) >= Len(p) /\ SubSeq(s, 1, Len(p)) = p
endswith(s, p) == Len(s) >= Len(p) /\ SubSeq(s, Len(s) - Len(p) + 1, Len(s)) = p

\* text.find(sub, i - 1) + 1: the first place from i on where sub starts, or 0
find(s, sub, i) ==
    Least({j \in i..(Len(s) - Len(sub) + 1) : SubSeq(s, j, j + Len(sub) - 1) = sub}
          \cup {Len(s) + 1}) % (Len(s) + 1)

\* sub in text
contains(s, sub) == find(s, sub, 1) # 0

Whitespace == {" ", "\n", "\t"}

lstrip(s) == From(s, next_not_in(s, 1, Whitespace))
rstrip(s) ==
    SubSeq(s, 1, Greatest({j \in 1..Len(s) : Ch(s, j) \notin Whitespace} \cup {0}))
strip(s) == lstrip(rstrip(s))

\* text.replace(old, new)
RECURSIVE replace(_, _, _)
replace(s, old, new) ==
    LET at == find(s, old, 1)
    IN  IF at = 0 THEN s
        ELSE SubSeq(s, 1, at - 1) \o new \o replace(From(s, at + Len(old)), old, new)

\* text.split("\n")
RECURSIVE split(_)
split(s) ==
    LET at == find(s, "\n", 1)
    IN  IF at = 0 THEN <<s>>
        ELSE <<SubSeq(s, 1, at - 1)>> \o split(From(s, at + 1))

\* "\n".join(lines)
RECURSIVE join(_)
join(lines) ==
    IF Len(lines) = 1 THEN lines[1]
    ELSE lines[1] \o "\n" \o join(Tail(lines))

\* ---- json.loads -------------------------------------------------------
JStr(x) == [t |-> "str", s |-> x, o |-> <<>>]
JLit(x) == [t |-> "lit", s |-> x, o |-> <<>>]
JObj(f) == [t |-> "obj", s |-> "", o |-> f]
JNone == JLit("None")

JSONDecodeError(msg, i) == [ok |-> FALSE, v |-> JNone, i |-> i, msg |-> msg]
Decoded(v, i) == [ok |-> TRUE, v |-> v, i |-> i, msg |-> ""]

Digits == {"0", "1", "2", "3", "4", "5", "6", "7", "8", "9"}

skip_ws(s, i) == next_not_in(s, i, Whitespace)

\* py_scanstring from character i, inside the quotes; acc is the content
\* decoded so far
RECURSIVE scanstring(_, _, _)
scanstring(s, i, acc) ==
    LET j == next_in(s, i, {"\"", "\\", "\n", "\t"})
        c == Ch(s, j)
        esc == Ch(s, j + 1)
        chunk == acc \o SubSeq(s, i, j - 1)
    IN  IF c = "" THEN JSONDecodeError("Unterminated string starting at", j)
        ELSE IF c = "\"" THEN Decoded(JStr(chunk), j + 1)
        ELSE IF c = "\\"
        THEN IF esc \in {"\"", "\\", "/"} THEN scanstring(s, j + 2, chunk \o esc)
             ELSE IF esc = "n" THEN scanstring(s, j + 2, chunk \o "\n")
             ELSE IF esc = "t" THEN scanstring(s, j + 2, chunk \o "\t")
             ELSE JSONDecodeError("Invalid \\escape", j)
        ELSE JSONDecodeError("Invalid control character at", j)

RECURSIVE scan_once(_, _)
RECURSIVE JSONObject(_, _)
RECURSIVE object_members(_, _, _)

scan_once(s, i) ==
    LET c == Ch(s, i)
        e == IF c = "0" THEN i + 1 ELSE next_not_in(s, i, Digits)
    IN  IF c = "\"" THEN scanstring(s, i + 1, "")
        ELSE IF c = "{" THEN JSONObject(s, i + 1)
        ELSE IF c \in Digits THEN Decoded([t |-> "num", s |-> SubSeq(s, i, e - 1), o |-> <<>>], e)
        ELSE IF startswith(From(s, i), "true") THEN Decoded(JLit("True"), i + 4)
        ELSE IF startswith(From(s, i), "false") THEN Decoded(JLit("False"), i + 5)
        ELSE IF startswith(From(s, i), "null") THEN Decoded(JNone, i + 4)
        ELSE JSONDecodeError("Expecting value", i)

JSONObject(s, i) ==
    LET j == skip_ws(s, i)
    IN  IF Ch(s, j) = "}" THEN Decoded(JObj(<<>>), j + 1)
        ELSE IF Ch(s, j) # "\""
        THEN JSONDecodeError("Expecting property name enclosed in double quotes", j)
        ELSE object_members(s, j + 1, <<>>)

object_members(s, i, f) ==
    LET k == scanstring(s, i, "")
        c == skip_ws(s, k.i)
        v == scan_once(s, skip_ws(s, c + 1))
        d == skip_ws(s, v.i)
        g == (k.v.s :> v.v) @@ f
        n == skip_ws(s, d + 1)
    IN  IF ~k.ok THEN k
        ELSE IF Ch(s, c) # ":" THEN JSONDecodeError("Expecting ':' delimiter", c)
        ELSE IF ~v.ok THEN v
        ELSE IF Ch(s, d) = "}" THEN Decoded(JObj(g), d + 1)
        ELSE IF Ch(s, d) # "," THEN JSONDecodeError("Expecting ',' delimiter", d)
        ELSE IF Ch(s, n) # "\""
        THEN JSONDecodeError("Expecting property name enclosed in double quotes", n)
        ELSE object_members(s, n + 1, g)

json_loads(s) ==
    LET r == scan_once(s, skip_ws(s, 1))
    IN  IF ~r.ok THEN r
        ELSE IF skip_ws(s, r.i) # Len(s) + 1
        THEN JSONDecodeError("Extra data", skip_ws(s, r.i))
        ELSE r

\* lineno and colno of a JSONDecodeError raised at character i of doc
lineno(doc, i) == Cardinality({j \in 1..(i - 1) : Ch(doc, j) = "\n"}) + 1
colno(doc, i) == i - Greatest({j \in 1..(i - 1) : Ch(doc, j) = "\n"} \cup {0})

\* ---- the repairs of call_editor_api ------------------------------------
\* end of the string literal whose content starts at i: the index of its
\* closing quote, or 0 when the pattern cannot match there; "." matches a
\* new line only under re.DOTALL
RECURSIVE string_end(_, _, _)
string_end(s, i, dotall) ==
    LET j == next_in(s, i, {"\"", "\\"})
        c == Ch(s, j)
        esc == Ch(s, j + 1)
    IN  IF c = "" THEN 0
        ELSE IF c = "\"" THEN j
        ELSE IF esc = "" \/ (esc = "\n" /\ ~dotall) THEN 0
        ELSE string_end(s, j + 2, dotall)

\* re.sub(r'(?<!\\)"', r'\\"', content)
RECURSIVE escape_bare_quotes(_, _)
escape_bare_quotes(s, i) ==
    LET bare == {j \in i..Len(s) : Ch(s, j) = "\"" /\ Ch(s, j - 1) # "\\"}
        j == Least(bare)
    IN  IF bare = {} THEN From(s, i)
        ELSE SubSeq(s, i, j - 1) \o "\\\"" \o escape_bare_quotes(s, j + 1)

\* re.sub(pattern, fix_inner_quotes, text) with
\* pattern = r'"([^"\\]*(?:\\.[^"\\]*)*)"'
RECURSIVE fix_inner_quotes(_)
fix_inner_quotes(s) ==
    LET q == find(s, "\"", 1)
        e == string_end(s, q + 1, FALSE)
    IN  IF q = 0 THEN s
        ELSE IF e # 0
        THEN SubSeq(s, 1, q) \o escape_bare_quotes(SubSeq(s, q + 1, e - 1), 1) \o "\""
                  \o fix_inner_quotes(From(s, e + 1))
        ELSE SubSeq(s, 1, q) \o fix_inner_quotes(From(s, q + 1))

\* the fence of a code block; "~" stands for the backquote, which a TLA+
\* string cannot hold
Fence == "~~~"

strip_fences(text) ==
    LET a == strip(text)
        b == IF startswith(a, Fence \o "json") THEN strip(From(a, Len(Fence \o "json") + 1)) ELSE a
    IN  IF endswith(b, Fence) THEN strip(SubSeq(b, 1, Len(b) - 3)) ELSE b

clean_reply(text) ==
    IF json_loads(strip_fences(text)).ok THEN strip_fences(text)
    ELSE fix_inner_quotes(strip_fences(text))

\* the loop body over lines[i] of repair 2
close_quote(raw) ==
    LET line == rstrip(raw)
    IN  IF \E c \in {",", "{", "[", ":", "}"} : endswith(line, c) THEN raw
        ELSE IF \/ /\ contains(line, ":")
                   /\ ~\E c \in {"\"", ",", "}", "]"} : endswith(line, c)
                \/ /\ startswith(lstrip(line), "\"")
                   /\ ~\E c \in {"\"", ","} : endswith(line, c)
        THEN line \o "\""
        ELSE raw

\* repairs 1 to 3: apostrophes, quotes at line ends, commas between elements
simple_repairs(cleaned_reply) ==
    LET r1 == replace(cleaned_reply, "'", "\"")
        lines == split(r1)
        r2 == join([i \in DOMAIN lines |-> close_quote(lines[i])])
        r3 == replace(r2, "}\n{", "},\n{")
        r4 == replace(r3, "]\n[", "],\n[")
        r5 == replace(r4, "}\n\"", "},\n\"")
    IN  replace(r5, "]\n\"", "],\n\"")

\* re.sub(r'",\s*}', '"}', text) and re.sub(r'",\s*]', '"]', text)
RECURSIVE sub_trailing_comma(_, _)
sub_trailing_comma(s, closer) ==
    LET q == find(s, "\",", 1)
        j == skip_ws(s, q + 2)
    IN  IF q = 0 THEN s
        ELSE IF Ch(s, j) = closer
        THEN SubSeq(s, 1, q) \o closer \o sub_trailing_comma(From(s, j + 1), closer)
        ELSE SubSeq(s, 1, q) \o sub_trailing_comma(From(s, q + 1), closer)

\* re.sub(r'"\s*\n\s*"', '",\n"', text)
RECURSIVE sub_missing_comma(_)
sub_missing_comma(s) ==
    LET q == find(s, "\"", 1)
        j == skip_ws(s, q + 1)
    IN  IF q = 0 THEN s
        ELSE IF Ch(s, j) = "\"" /\ contains(SubSeq(s, q + 1, j - 1), "\n")
        THEN SubSeq(s, 1, q) \o ",\n\"" \o sub_missing_comma(From(s, j + 1))
        ELSE SubSeq(s, 1, q) \o sub_missing_comma(From(s, q + 1))

\* the comma put in at the place json.loads complained about
insert_comma(text, line_num, col_num) ==
    LET lines == split(text)
        line == lines[line_num]
    IN  IF 1 <= line_num /\ line_num <= Len(lines) /\ col_num <= Len(line)
        THEN join([lines EXCEPT ![line_num] =
                      SubSeq(line, 1, col_num) \o "," \o From(line, col_num + 1)])
        ELSE text

aggressive_repairs(cleaned_reply, json_err) ==
    LET a == sub_trailing_comma(cleaned_reply, "}")
        b == sub_trailing_comma(a, "]")
        c == sub_missing_comma(b)
    IN  IF json_err.msg = "Expecting ',' delimiter"
        THEN insert_comma(c, lineno(cleaned_reply, json_err.i),
                             colno(cleaned_reply, json_err.i))
        ELSE c

special_chars(c) ==
    CASE c = "," -> "###COMMA###"
      [] c = ":" -> "###COLON###"
      [] c = "{" -> "###LCURLY###"
      [] c = "}" -> "###RCURLY###"
      [] c = "[" -> "###LBRACKET###"
      [] c = "]" -> "###RBRACKET###"
      [] OTHER -> c


\* the loop over json_str from character i on, taken from one character
\* that can change the state or be replaced to the next
RECURSIVE escape_special_chars_in_strings(_, _, _)
escape_special_chars_in_strings(json_str, i, in_string) ==
    LET j == next_in(json_str, i,
                     {"\\", "\""} \cup (IF in_string THEN {",", ":", "{", "}", "[", "]"} ELSE {}))
        char == Ch(json_str, j)
        copied == SubSeq(json_str, i, j - 1)
    IN  IF char = "" THEN copied
        ELSE IF char = "\\"
        THEN copied \o char \o Ch(json_str, j + 1)
                    \o escape_special_chars_in_strings(json_str, j + 2, in_string)
        ELSE IF char = "\""
        THEN copied \o char \o escape_special_chars_in_strings(json_str, j + 1, ~in_string)
        ELSE copied \o special_chars(char)
                    \o escape_special_chars_in_strings(json_str, j + 1, in_string)

restore_special_chars(json_str) ==
    LET a == replace(json_str, "###COMMA###", ",")
        b == replace(a, "###COLON###", ":")
        c == replace(b, "###LCURLY###", "{")
        d == replace(c, "###RCURLY###", "}")
        e == replace(d, "###LBRACKET###", "[")
    IN  replace(e, "###RBRACKET###", "]")

\* re.search of '"<key>":\s*"(...)"' from character i on: the group, if any
RECURSIVE re_search(_, _, _, _)
re_search(text, key, i, titled) ==
    LET head == "\"" \o key \o "\":"
        q == skip_ws(text, i + Len(head))
        e == string_end(text, q + 1, titled)
    IN  IF i = 0 THEN [found |-> FALSE, group |-> ""]
        ELSE IF /\ Ch(text, q) = "\""
                /\ e # 0
                /\ titled => Ch(text, e - 1) # "\\"
        THEN [found |-> TRUE, group |-> SubSeq(text, q + 1, e - 1)]
        ELSE re_search(text, key, find(text, head, i + 1), titled)

manual_result(cleaned_reply) ==
    LET resolution_match == re_search(cleaned_reply, "resolution", find(cleaned_reply, "\"resolution\":", 1), FALSE)
        title_match == re_search(cleaned_reply, "title", find(cleaned_reply, "\"title\":", 1), TRUE)
        body_match == re_search(cleaned_reply, "body", find(cleaned_reply, "\"body\":", 1), TRUE)
        illustration_match == re_search(cleaned_reply, "illustration", find(cleaned_reply, "\"illustration\":", 1), TRUE)
        post == ("title" :> JStr(title_match.group)) @@ ("body" :> JStr(body_match.group))
    IN  IF resolution_match.found /\ title_match.found /\ body_match.found
        THEN [ok |-> TRUE,
              v |-> JObj(("resolution" :> JStr(resolution_match.group)) @@
                         ("post" :> JObj(IF illustration_match.found
                                         THEN ("illustration" :> JStr(illustration_match.group)) @@ post
                                         ELSE post)))]
        ELSE [ok |-> FALSE, v |-> JNone]

\* lines 114-322 of call_editor_api: the structure made of a reply that
\* passed the completeness tests, or None
parse_reply(reply) ==
    LET first == simple_repairs(clean_reply(reply))
        json_err == json_loads(first)
        second == aggressive_repairs(first, json_err)
        third == restore_special_chars(escape_special_chars_in_strings(second, 1, FALSE))
    IN  IF json_loads(first).ok THEN [ok |-> TRUE, v |-> json_loads(first).v]
        ELSE IF json_loads(second).ok THEN [ok |-> TRUE, v |-> json_loads(second).v]
        ELSE IF json_loads(third).ok THEN [ok |-> TRUE, v |-> json_loads(third).v]
        ELSE manual_result(second)

\* ---- the result as process_news and button_handler read it --------------
\* result.get(key)
get(v, key) == IF v.t = "obj" /\ key \in DOMAIN v.o THEN v.o[key] ELSE JNone
\* a missing or non-text member reads as the empty text
text_of(v) == IF v.t = "str" THEN v.s ELSE ""

as_result(v) ==
    [resolution |-> text_of(get(v, "resolution")),
     post |-> IF get(v, "post").t = "obj" /\ DOMAIN get(v, "post").o # {}
              THEN Post(text_of(get(get(v, "post"), "title")),
                        text_of(get(get(v, "post"), "body")),
                        text_of(get(get(v, "post"), "illustration")))
              ELSE NoPost]

\* One HTTP exchange: requests.post raises a RequestException (timeout,
\* connection error, HTTP 5xx through raise_for_status), or the provider
\* answers with a text and with or without a stop_reason.
TransientFailure == [fail |-> TRUE, text |-> "", stop_reason |-> FALSE]
Reply(text) == [fail |-> FALSE, text |-> text, stop_reason |-> TRUE]
Unfinished(text) == [fail |-> FALSE, text |-> text, stop_reason |-> FALSE]

\* a reply with one post, written on one line or one member per line, with
\* or without a further member after the post
Quoted(x) == "\"" \o x \o "\""
Member(key, value) == Quoted(key) \o ": " \o value
PostText(title, body) ==
    "{" \o Member("title", Quoted(title)) \o ", " \o Member("body", Quoted(body)) \o "}"
CompactReply(title, body, extra) ==
    "{" \o Member("resolution", Quoted("approve")) \o ", "
        \o Member("post", PostText(title, body))
        \o (IF extra = "" THEN "" ELSE ", " \o extra) \o "}"
PrettyReply(title, body, extra) ==
    "{\n " \o Member("resolution", Quoted("approve")) \o ",\n "
           \o Member("post", PostText(title, body))
           \o (IF extra = "" THEN "" ELSE ",\n " \o extra) \o "\n}"
Fenced(text) == Fence \o "json\n" \o text \o "\n" \o Fence

Titles == {"T1", "it's", "X"}
Bodies == {"B1 long body", "Y"}
Extras == {"", Member("n", "1"), Member("ok", "true")}
\* replies that are valid JSON, bare or inside a fence
PlainReplies ==
    { CompactReply(t, b, x) : t \in Titles, b \in Bodies, x \in Extras }
    \cup { PrettyReply(t, b, x) : t \in Titles, b \in Bodies, x \in Extras }

\* replies that lost one of their quotes on the way
DropChar(text, at) == SubSeq(text, 1, at - 1) \o From(text, at + 1)
DamagedReplies ==
    { DropChar(text, at) :
         text \in {CompactReply("X", "Y", "")},
         at \in {k \in 1..Len(CompactReply("X", "Y", "")) :
                    Ch(CompactReply("X", "Y", ""), k) = "\""} }
    \cup { DropChar(text, at) :
         text \in {PrettyReply("T1", "B1 long body", "")},
         at \in {k \in 1..Len(PrettyReply("T1", "B1 long body", "")) :
                    Ch(PrettyReply("T1", "B1 long body", ""), k) = "\""} }

\* every text the provider answers with, and what lines 114-322 of
\* call_editor_api make of each
ReplyTexts ==
    { ApproveText1, ApproveText2, NoTitleText, NoPostText, DenyReasonText, DenyText,
      ProseText, UnterminatedTitleText, "" }
    \cup PlainReplies \cup { Fenced(text) : text \in PlainReplies }
    \cup DamagedReplies
Parsed == [text \in ReplyTexts |-> parse_reply(text)]

MinReplyLen == 50
\* the body without the length test
editor_body_NoLengthTest(reply) ==
    IF reply.fail THEN [kind |-> "none", value |-> JNone, parsed |-> FALSE]
    ELSE IF ~reply.stop_reason THEN [kind |-> "raise", value |-> JNone, parsed |-> FALSE]
    ELSE IF Parsed[reply.text].ok
    THEN [kind |-> "result", value |-> Parsed[reply.text].v, parsed |-> TRUE]
    ELSE [kind |-> "none", value |-> JNone, parsed |-> TRUE]

\* the body of call_editor_api on one exchange: a structure, None, or an
\* exception that leaves the function; parsed tells whether the reply was
\* handed to clean_reply and the repairs
editor_body(reply) ==
    IF reply.fail THEN [kind |-> "none", value |-> JNone, parsed |-> FALSE]
    ELSE IF reply.text = "" \/ Len(reply.text) < MinReplyLen
    THEN [kind |-> "raise", value |-> JNone, parsed |-> FALSE]
    ELSE IF ~reply.stop_reason THEN [kind |-> "raise", value |-> JNone, parsed |-> FALSE]
    ELSE IF Parsed[reply.text].ok
    THEN [kind |-> "result", value |-> Parsed[reply.text].v, parsed |-> TRUE]
    ELSE [kind |-> "none", value |-> JNone, parsed |-> TRUE]

\* retry_with_backoff(retries): outcomes[k] is what the k-th invocation of
\* the wrapped function does; x counts the retries made so far.
RECURSIVE retry_with_backoff(_, _, _)
retry_with_backoff(retries, outcomes, x) ==
    LET o == outcomes[x + 1]
    IN  IF o.kind # "raise"
        THEN [kind |-> o.kind, value |-> o.value, calls |-> x + 1]
        ELSE IF x = retries
        THEN [kind |-> "raise", value |-> o.value, calls |-> x + 1]
        ELSE retry_with_backoff(retries, outcomes, x + 1)

EditorRetries == 3
\* the provider answers every exchange of a call with the same reply
Repeated(reply) == [k \in 1..(EditorRetries + 1) |-> reply]

\* a call_editor_api whose unparseable replies raise, and so are retried
call_editor_api_RetryUnparsed(replies) ==
    LET body(reply) ==
            IF editor_body(reply).kind = "none" /\ editor_body(reply).parsed
            THEN [kind |-> "raise", value |-> JNone, parsed |-> TRUE]
            ELSE editor_body(reply)
        r == retry_with_backoff(EditorRetries,
                                [k \in DOMAIN replies |-> body(replies[k])], 0)
    IN  [kind |-> r.kind, result |-> as_result(r.value), json |-> r.value,
         calls |-> r.calls, replies |-> SubSeq(replies, 1, r.calls),
         parsed |-> [k \in 1..r.calls |-> editor_body(replies[k]).parsed]]

\* @retry_with_backoff(retries=3, ...) call_editor_api: replies are the
\* exchanges the provider will answer, in order
call_editor_api(replies) ==
    LET r == retry_with_backoff(EditorRetries,
                                [k \in DOMAIN replies |-> editor_body(replies[k])], 0)
    IN  [kind |-> r.kind, result |-> as_result(r.value), json |-> r.value,
         calls |-> r.calls, replies |-> SubSeq(replies, 1, r.calls),
         parsed |-> [k \in 1..r.calls |-> editor_body(replies[k]).parsed]]

\* What call_editor_api can do: a structured result, None, or an exception
\* once the retries are exhausted.
EditorOutcomes ==
    { call_editor_api(<<Reply(t)>>) :
         t \in {ApproveText1, ApproveText2, NoTitleText, NoPostText, DenyReasonText} }
    \cup { call_editor_api(Repeated(Reply(ProseText))),
           call_editor_api(<<Unfinished(ProseText), Reply(ProseText), Reply(ProseText),
                             Reply(ProseText)>>),
           call_editor_api(<<Reply(""), Reply(""), Reply(""), Reply("")>>) }

NoImage == "None"

\* not prompt or not prompt.strip()
Blank(prompt) == prompt \in {"", " "}

\* the body of generate_image: None without a call on a blank prompt, else
\* the URL of the service, or None when the call raises (answer NoImage)
generate_image(prompt, answer) ==
    IF Blank(prompt) THEN NoImage ELSE answer

ImageRetries == 2
\* @retry_with_backoff(retries=2, ...) generate_image: answers are what the
\* service does on its successive calls; calls counts the calls made to it
generate_image_call(prompt, answers) ==
    LET r == retry_with_backoff(ImageRetries,
                [k \in DOMAIN answers |->
                    [kind |-> "return", value |-> generate_image(prompt, answers[k])]], 0)
    IN  [image_url |-> r.value,
         calls |-> IF Blank(prompt) THEN 0 ELSE r.calls,
         prompt |-> prompt,
         answers |-> IF Blank(prompt) THEN <<>> ELSE SubSeq(answers, 1, r.calls)]

\* post.get("title", <default title>) / post.get("body", "")
PostTitle(result) ==
    IF result.post.present THEN result.post.title ELSE "DefaultTitle"
PostBody(result) ==
    IF result.post.present THEN result.post.body ELSE ""

(* ------------------------------ the clock ----------------------------- *)
\* strftime('%d.%m.%Y %H:%M'): the minute of an instant, seconds dropped.
strftime(t) == [ok |-> TRUE, minute |-> t \div SubTicks]
\* datetime.strptime(time_str, '%d.%m.%Y %H:%M'): start of that minute
strptime(s) == s.minute * SubTicks

\* now.replace(hour=.., minute=55, second=0), rolled to the next day when
\* it is earlier than now
Slot(t, offset) ==
    LET today == ((t \div (DayLen * SubTicks)) * DayLen + offset) * SubTicks
    IN  IF today < t THEN today + DayLen * SubTicks ELSE today

suggested_times(t) ==
    { Slot(t, MorningSlot), Slot(t, LunchSlot), Slot(t, EveningSlot) }

(* ------------------------------ the store ----------------------------- *)

\* UPDATE fetched_events SET "isPosted" = FALSE
\*  WHERE "groupId" = g AND "isPosted" IS NULL   (errors are swallowed)
mark_news_as_processed(ev, g, ok) ==
    IF ~ok THEN ev
    ELSE [id \in DOMAIN ev |->
            IF ev[id].groupId = g /\ ev[id].isPosted = "NULL"
            THEN [ev[id] EXCEPT !.isPosted = "FALSE"] ELSE ev[id]]

\* the same UPDATE without the condition on the current "isPosted"
update_news_status_by_group_AnyRow(ev, g, status, ok) ==
    IF ~ok THEN ev
    ELSE [id \in DOMAIN ev |->
            IF ev[id].groupId = g
            THEN [ev[id] EXCEPT !.isPosted = status] ELSE ev[id]]

\* UPDATE fetched_events SET "isPosted" = status
\*  WHERE "groupId" = g AND ("isPosted" IS NULL OR "isPosted" = FALSE)
update_news_status_by_group(ev, g, status, ok) ==
    IF ~ok THEN ev
    ELSE [id \in DOMAIN ev |->
            IF ev[id].groupId = g /\ ev[id].isPosted \in {"NULL", "FALSE"}
            THEN [ev[id] EXCEPT !.isPosted = status] ELSE ev[id]]

\* the same INSERT with the image_url column left out
schedule_post_NoImage(sp, g, when, title, body, image_url, ok) ==
    IF ~ok THEN sp
    ELSE Append(sp, [group_id |-> g, scheduled_time |-> when, title |-> title,
                     body |-> body, image_url |-> NoImage,
                     is_posted |-> FALSE])

\* INSERT INTO scheduled_posts (...) VALUES (..., false)
schedule_post(sp, g, when, title, body, image_url, ok) ==
    IF ~ok THEN sp
    ELSE Append(sp, [group_id |-> g, scheduled_time |-> when, title |-> title,
                     body |-> body, image_url |-> image_url,
                     is_posted |-> FALSE])

\* an UPDATE that also resets scheduled_time
update_post_status_Retime(sp, g, posted, ok) ==
    IF ~ok THEN sp
    ELSE [i \in DOMAIN sp |->
            IF sp[i].group_id = g /\ sp[i].is_posted = FALSE
            THEN [sp[i] EXCEPT !.is_posted = posted, !.scheduled_time = 0] ELSE sp[i]]

\* UPDATE scheduled_posts SET is_posted = posted
\*  WHERE group_id = g AND is_posted = false
update_post_status(sp, g, posted, ok) ==
    IF ~ok THEN sp
    ELSE [i \in DOMAIN sp |->
            IF sp[i].group_id = g /\ sp[i].is_posted = FALSE
            THEN [sp[i] EXCEPT !.is_posted = posted] ELSE sp[i]]

\* the same SELECT with WHERE is_posted = true
get_scheduled_posts_Posted(sp, ok) ==
    IF ~ok THEN {} ELSE { i \in DOMAIN sp : sp[i].is_posted = TRUE }

\* SELECT ... FROM scheduled_posts WHERE is_posted = false (ids of the rows;
\* [] when the query fails)
get_scheduled_posts(sp, ok) ==
    IF ~ok THEN {} ELSE { i \in DOMAIN sp : sp[i].is_posted = FALSE }

\* the job context built for a row or at confirmation
JobOf(g, when, title, body, image_url) ==
    [group_id |-> g, when |-> when, title |-> title, body |-> body,
     image_url |-> image_url]
JobOfRow(row) ==
    JobOf(row.group_id, row.scheduled_time, row.title, row.body, row.image_url)

(* ------------------------------ history ------------------------------- *)
\* op: the handler or step, g: its group, out: how it ended, btn: the
\* callback button that triggered a conversation handler
\* api: the calls the step made to the editor and to the image service;
\* sent: the message the step handed to the channel
NoApi == [replies |-> <<>>, editor_calls |-> 0, parsed |-> <<>>, json |-> JNone,
          prompt |-> "", answers |-> <<>>, image_calls |-> 0]
Api(eo, ic) ==
    [replies |-> eo.replies, editor_calls |-> eo.calls, parsed |-> eo.parsed,
     json |-> eo.json, prompt |-> ic.prompt, answers |-> ic.answers,
     image_calls |-> ic.calls]
NoEditorCall == [replies |-> <<>>, calls |-> 0, parsed |-> <<>>, json |-> JNone]
NoImageCall == [prompt |-> "", answers |-> <<>>, calls |-> 0]

NoMessage == [method |-> "", title |-> "", body |-> "", photo |-> NoImage]
\* the publish that sends a photo whatever image_url is
Publish_Photo(title, body, image_url) ==
    [method |-> "send_photo", title |-> title, body |-> body, photo |-> image_url]
\* send_photo(photo=image_url, caption=...) if image_url else send_message(text=...)
Publish(title, body, image_url) ==
    [method |-> IF image_url # NoImage THEN "send_photo" ELSE "send_message",
     title |-> title, body |-> body, photo |-> image_url]

\* notes: how many messages naming the group a pass of process_news has
\* sent to the operator
StepNotes(op, g, out, btn, api, sent, notes) ==
    [op |-> op, g |-> g, out |-> out, btn |-> btn, api |-> api, sent |-> sent,
     notes |-> notes]
StepFull(op, g, out, btn, api, sent) == StepNotes(op, g, out, btn, api, sent, 0)
StepBtn(op, g, out, btn) == StepFull(op, g, out, btn, NoApi, NoMessage)
Step(op, g, out) == StepBtn(op, g, out, "")
StepApi(op, g, out, api) == StepFull(op, g, out, "", api, NoMessage)
StepSent(op, g, out, sent) == StepFull(op, g, out, "", NoApi, sent)

NoInvocation == [i \in Invokers |-> <<>>]

Init ==
    /\ now = 0
    /\ up = TRUE
    /\ fetched_events = <<>>
    /\ scheduled_posts = <<>>
    /\ news_groups = <<>>
    /\ user_data = <<>>
    /\ conv = "END"
    /\ slots = {}
    /\ kb = [g \in Groups |-> 0]
    /\ jobs = EmptyBag
    /\ gpc = [i \in Invokers |-> "idle"]
    /\ gids = NoInvocation
    /\ gfiltered = NoInvocation
    /\ groups = NoInvocation
    /\ fired = {}
    /\ last = Step("init", 0, "")

(* --------------------------- upsert monitor --------------------------- *)
\* INSERT INTO fetched_events ... ON CONFLICT (event_id) DO NOTHING
upsert_records(ev, id, g, d) ==
    IF id \in DOMAIN ev THEN ev
    ELSE ev @@ (id :> [groupId |-> g, eventDate |-> d, isPosted |-> "NULL"])

\* The monitor (its own process) ingests one record of a file.
Ingest(id, g, d) ==
    /\ fetched_events' = upsert_records(fetched_events, id, g, d)
    /\ last' = Step("ingest", g, IF id \in DOMAIN fetched_events
                                  THEN "conflict" ELSE "inserted")
    /\ UNCHANGED <<now, up, scheduled_posts, news_groups, convVars, kb, jobs,
                   grouperVars, fired>>

(* ------------------------------ the clock ----------------------------- *)
Tick ==
    /\ now < MaxTime
    /\ now' = now + 1
    /\ last' = Step("tick", 0, "")
    /\ UNCHANGED <<up, store, news_groups, convVars, kb, jobs, grouperVars, fired>>

(* ------------------------------ grouper ------------------------------- *)
\* group ids in ascending order (ORDER BY "groupId")
RECURSIVE SortedSeq(_)
SortedSeq(S) ==
    IF S = {} THEN <<>>
    ELSE LET m == CHOOSE x \in S : \A y \in S : x <= y
         IN  <<m>> \o SortedSeq(S \ {m})

\* SELECT DISTINCT ON ("groupId") "groupId" ... WHERE "isPosted" IS NULL
UnpostedGroupIds(ev) ==
    SortedSeq({ ev[id].groupId : id \in { i \in DOMAIN ev : ev[i].isPosted = "NULL" } })

\* SELECT COUNT(*) ... WHERE "groupId" = g AND "isPosted" = FALSE
CountProcessed(ev, g) ==
    Cardinality({ id \in DOMAIN ev : ev[id].groupId = g /\ ev[id].isPosted = "FALSE" })

\* SELECT ... WHERE "groupId" = g AND "isPosted" IS NULL ORDER BY "eventDate"
\* followed by the stable sort: every listing in ascending eventDate order
\* (rows of equal eventDate come in an order the store chooses).
UnpostedRows(ev, g) ==
    { id \in DOMAIN ev : ev[id].groupId = g /\ ev[id].isPosted = "NULL" }
NewsLists(ev, g) ==
    LET S == UnpostedRows(ev, g)
        n == Cardinality(S)
    IN  { s \in [1..n -> S] :
            /\ \A i, j \in 1..n : i # j => s[i] # s[j]
            /\ \A i, j \in 1..n : i < j => ev[s[i]].eventDate <= ev[s[j]].eventDate }

WindowSize == 3
\* news_list[:3]
LastWindow_First(s) ==
    IF Len(s) <= WindowSize THEN s ELSE SubSeq(s, 1, WindowSize)

\* news_list[-3:]
LastWindow(s) ==
    IF Len(s) <= WindowSize THEN s ELSE SubSeq(s, Len(s) - WindowSize + 1, Len(s))

\* the invocation ends: locals are dropped
GrouperReturn(i, mapping) ==
    /\ gids' = [gids EXCEPT ![i] = <<>>]
    /\ gfiltered' = [gfiltered EXCEPT ![i] = <<>>]
    /\ groups' = [groups EXCEPT ![i] = mapping]
    /\ gpc' = [gpc EXCEPT ![i] = IF mapping = <<>> THEN "idle" ELSE "process"]

\* get_unposted_news_groups, first query.  ok = FALSE: the query raises and
\* the function returns {}.
GroupStart(i, ok) ==
    /\ up /\ gpc[i] = "idle"
    /\ IF ok /\ UnpostedGroupIds(fetched_events) # <<>>
       THEN /\ gids' = [gids EXCEPT ![i] = UnpostedGroupIds(fetched_events)]
            /\ gpc' = [gpc EXCEPT ![i] = "filter"]
            /\ UNCHANGED <<gfiltered, groups>>
       ELSE UNCHANGED grouperVars
    /\ last' = Step("group_start", 0, IF ok THEN i ELSE "error")
    /\ UNCHANGED <<now, up, store, news_groups, convVars, kb, jobs, fired>>

\* one pass of the filter loop
GroupFilter(i, ok) ==
    /\ up /\ gpc[i] = "filter"
    /\ LET g == Head(gids[i])
           keep == CountProcessed(fetched_events, g) = 0
           f == IF keep THEN Append(gfiltered[i], g) ELSE gfiltered[i]
       IN  IF ~ok THEN GrouperReturn(i, <<>>)
           ELSE IF Tail(gids[i]) # <<>>
           THEN /\ gids' = [gids EXCEPT ![i] = Tail(gids[i])]
                /\ gfiltered' = [gfiltered EXCEPT ![i] = f]
                /\ UNCHANGED <<gpc, groups>>
           ELSE IF f = <<>> THEN GrouperReturn(i, <<>>)
           ELSE /\ gids' = [gids EXCEPT ![i] = <<>>]
                /\ gfiltered' = [gfiltered EXCEPT ![i] = f]
                /\ gpc' = [gpc EXCEPT ![i] = "fetch"]
                /\ UNCHANGED groups
    /\ last' = Step("group_filter", Head(gids[i]), IF ok THEN i ELSE "error")
    /\ UNCHANGED <<now, up, store, news_groups, convVars, kb, jobs, fired>>

\* the SELECT of one pass of the fetch loop: groups[group_id] = news_list[-3:]
GroupFetch(i, ok) ==
    /\ up /\ gpc[i] = "fetch"
    /\ LET g == Head(gfiltered[i])
       IN  IF ~ok THEN GrouperReturn(i, <<>>)
           ELSE \E s \in NewsLists(fetched_events, g) :
                /\ groups' = [groups EXCEPT ![i] =
                                Append(@, [group_id |-> g, news_group |-> LastWindow(s)])]
                /\ gpc' = [gpc EXCEPT ![i] = "mark"]
                /\ UNCHANGED <<gids, gfiltered>>
    /\ last' = Step("group_fetch", Head(gfiltered[i]), IF ok THEN i ELSE "error")
    /\ UNCHANGED <<now, up, store, news_groups, convVars, kb, jobs, fired>>

\* the mark_news_as_processed call of that pass; after the last pass the
\* mapping is returned to check_news / scheduled_check_news
GroupMark(i, ok) ==
    /\ up /\ gpc[i] = "mark"
    /\ LET g == Head(gfiltered[i])
       IN  /\ fetched_events' = mark_news_as_processed(fetched_events, g, ok)
           /\ IF Tail(gfiltered[i]) # <<>>
              THEN /\ gfiltered' = [gfiltered EXCEPT ![i] = Tail(@)]
                   /\ gpc' = [gpc EXCEPT ![i] = "fetch"]
                   /\ UNCHANGED <<gids, groups>>
              ELSE GrouperReturn(i, groups[i])
           /\ last' = Step("group_mark", g, IF ok THEN i ELSE "error")
    /\ UNCHANGED <<now, up, scheduled_posts, news_groups, convVars, kb, jobs, fired>>

(* ----------------------------- process_news --------------------------- *)
Session(news_group, result, image_url) ==
    [news_group |-> news_group, editor_result |-> result, image_url |-> image_url]

HasSession(g) == g \in DOMAIN news_groups

\* bot_data["news_groups"][f"group_{group_id}"] = {...}
StoreSession(ng, g, session) ==
    [k \in DOMAIN ng \cup {g} |-> IF k = g THEN session ELSE ng[k]]

\* One pass of the loop of process_news over the returned mapping.
\*   sendOk : the status message could be sent
\*   eo     : what call_editor_api does
\*   img    : what the image service answers when it is called
\*   markOk, denyOk : the store writes succeed
\*   postOk : the post could be sent to the operator
\*   notifyOk : the error message of the except branch could be sent; when
\*              it cannot, the exception leaves process_news
ProcessGroup(i, sendOk, eo, img, markOk, denyOk, postOk, notifyOk) ==
    /\ up /\ gpc[i] = "process"
    /\ LET g == Head(groups[i]).group_id
           news_group == Head(groups[i]).news_group
           result == eo.result
           approve == result.resolution = "approve"
           skipped ==
               IF ~sendOk THEN "no_status"
               ELSE IF eo.kind = "raise" THEN "error"
               ELSE IF eo.kind = "none" THEN "failed"
               ELSE IF ~result.post.present /\ approve THEN "incomplete"
               ELSE IF approve /\ (result.post.title = "" \/ result.post.body = "")
                    THEN "empty"
               ELSE ""
           ic == IF skipped = "" /\ result.post.illustration # "" /\ approve
                 THEN generate_image_call(result.post.illustration, <<img>>)
                 ELSE NoImageCall
           image_url == IF ic = NoImageCall THEN NoImage ELSE ic.image_url
           api == Api(IF sendOk THEN eo ELSE NoEditorCall, ic)
           raised == (skipped = "error") \/ (skipped = "" /\ ~postOk)
           aborted == raised /\ ~notifyOk
           notes == IF skipped = "no_status" THEN 0
                    ELSE IF skipped \in {"failed", "incomplete", "empty"} THEN 1
                    ELSE IF raised THEN (IF notifyOk THEN 1 ELSE 0)
                    ELSE IF approve THEN 0
                    ELSE 1
           Pass(out) == StepNotes("process", g, out, "", api, NoMessage, notes)
       IN  /\ IF skipped # ""
              THEN /\ last' = Pass(IF aborted THEN "aborted" ELSE skipped)
                   /\ UNCHANGED <<fetched_events, news_groups, kb>>
              ELSE /\ news_groups' = StoreSession(news_groups, g,
                                        Session(news_group, result, image_url))
                   /\ IF approve
                      THEN /\ fetched_events' =
                                 mark_news_as_processed(fetched_events, g, markOk)
                           /\ IF postOk
                              THEN /\ kb[g] < MaxKb
                                   /\ kb' = [kb EXCEPT ![g] = @ + 1]
                                   /\ last' = Pass("awaiting")
                              ELSE /\ kb' = kb
                                   /\ last' = Pass(IF aborted THEN "aborted" ELSE "error")
                      ELSE /\ fetched_events' =
                                 IF postOk
                                 THEN update_news_status_by_group(
                                          mark_news_as_processed(fetched_events, g, markOk),
                                          g, "FALSE", denyOk)
                                 ELSE mark_news_as_processed(fetched_events, g, markOk)
                           /\ kb' = kb
                           /\ last' = Pass(IF postOk THEN "denied"
                                        ELSE IF aborted THEN "aborted" ELSE "error")
           /\ groups' = [groups EXCEPT ![i] = IF aborted THEN <<>> ELSE Tail(@)]
           /\ gpc' = [gpc EXCEPT ![i] = IF aborted \/ Tail(groups[i]) = <<>>
                                        THEN "idle" ELSE "process"]
    /\ UNCHANGED <<now, up, scheduled_posts, convVars, jobs, gids, gfiltered, fired>>

(* ---------------------------- button_handler -------------------------- *)
\* The dispatcher thread takes a callback query: it is not inside
\* check_news, and a decision keyboard for the group is on display.
DecisionPressed(g) ==
    /\ up /\ gpc["cmd"] = "idle"
    /\ kb[g] >= 1

\* a not-found branch that writes the flag of the group all the same
NotFound_Flag(op, g) ==
    /\ kb' = [kb EXCEPT ![g] = @ - 1]
    /\ last' = Step(op, g, "not_found")
    /\ fetched_events' = update_news_status_by_group(fetched_events, g, "TRUE", TRUE)
    /\ UNCHANGED news_groups

\* "Group data not found": the message is replaced, its keyboard is gone.
NotFound(op, g) ==
    /\ kb' = [kb EXCEPT ![g] = @ - 1]
    /\ last' = Step(op, g, "not_found")
    /\ UNCHANGED <<fetched_events, news_groups>>

\* action == "approve"
Approve(g, dbOk, pubOk) ==
    /\ DecisionPressed(g) /\ conv = "END"
    /\ IF ~HasSession(g) THEN NotFound("approve", g)
       ELSE /\ fetched_events' =
                  update_news_status_by_group(fetched_events, g, "TRUE", dbOk)
            /\ kb' = IF pubOk THEN [kb EXCEPT ![g] = @ - 1] ELSE kb
            /\ last' = StepSent("approve", g,
                          IF pubOk THEN "published" ELSE "publish_failed",
                          Publish(PostTitle(news_groups[g].editor_result),
                                  PostBody(news_groups[g].editor_result),
                                  news_groups[g].image_url))
            /\ UNCHANGED news_groups
    /\ UNCHANGED <<now, up, scheduled_posts, convVars, jobs, grouperVars, fired>>

\* action == "cancel"
Cancel(g, dbOk) ==
    /\ DecisionPressed(g) /\ conv = "END"
    /\ IF ~HasSession(g) THEN NotFound("cancel", g)
       ELSE /\ fetched_events' =
                  update_news_status_by_group(fetched_events, g, "FALSE", dbOk)
            /\ kb' = [kb EXCEPT ![g] = @ - 1]
            /\ last' = Step("cancel", g, "rejected")
            /\ UNCHANGED news_groups
    /\ UNCHANGED <<now, up, scheduled_posts, convVars, jobs, grouperVars, fired>>

\* len(body) < 10
MinBodyLen == 10
TooShort(result) ==
    \/ PostTitle(result) = ""
    \/ PostBody(result) = ""
    \/ Len(PostBody(result)) < MinBodyLen

\* action == "again"
Again(g, eo, img, postOk) ==
    /\ DecisionPressed(g) /\ conv = "END"
    /\ IF ~HasSession(g) THEN NotFound("again", g)
       ELSE LET result == eo.result
                ic == IF result.post.illustration # ""
                      THEN generate_image_call(result.post.illustration, <<img>>)
                      ELSE NoImageCall
                new_image_url == IF ic = NoImageCall THEN NoImage ELSE ic.image_url
            IN  /\ UNCHANGED fetched_events
                /\ IF eo.kind # "result"
                   THEN /\ last' = StepApi("again", g,
                                      IF eo.kind = "none" THEN "failed" ELSE "error",
                                      Api(eo, NoImageCall))
                        /\ UNCHANGED <<news_groups, kb>>
                   ELSE IF ~result.post.present \/ result.resolution = ""
                   THEN /\ last' = StepApi("again", g, "incomplete", Api(eo, NoImageCall))
                        /\ UNCHANGED <<news_groups, kb>>
                   ELSE IF TooShort(result)
                   THEN /\ news_groups' = [news_groups EXCEPT ![g].editor_result = result]
                        /\ last' = StepApi("again", g, "too_short", Api(eo, NoImageCall))
                        /\ UNCHANGED kb
                   ELSE /\ news_groups' = [news_groups EXCEPT
                                              ![g].editor_result = result,
                                              ![g].image_url = new_image_url]
                        /\ IF postOk
                           THEN /\ kb[g] < MaxKb
                                /\ kb' = [kb EXCEPT ![g] = @ + 1]
                                /\ last' = StepApi("again", g, "awaiting", Api(eo, ic))
                           ELSE /\ kb' = kb
                                /\ last' = StepApi("again", g, "error", Api(eo, ic))
    /\ UNCHANGED <<now, up, scheduled_posts, convVars, jobs, grouperVars, fired>>

\* the "image" branch that stores whatever generate_image returned
Image_StoreAny(g, img) ==
    /\ DecisionPressed(g) /\ conv = "END"
    /\ IF ~HasSession(g) THEN NotFound("image", g)
       ELSE LET prompt == news_groups[g].editor_result.post.illustration
                ic == generate_image_call(prompt, <<img>>)
            IN  /\ news_groups' = [news_groups EXCEPT ![g].image_url = ic.image_url]
                /\ last' = StepApi("image", g,
                              IF ic.image_url # NoImage THEN "updated" ELSE "failed",
                              Api(NoEditorCall, ic))
                /\ UNCHANGED <<fetched_events, kb>>
    /\ UNCHANGED <<now, up, scheduled_posts, convVars, jobs, grouperVars, fired>>

\* action == "image"
Image(g, img) ==
    /\ DecisionPressed(g) /\ conv = "END"
    /\ IF ~HasSession(g) THEN NotFound("image", g)
       ELSE LET prompt == news_groups[g].editor_result.post.illustration
                ic == generate_image_call(prompt, <<img>>)
                new_image_url == ic.image_url
            IN  /\ IF new_image_url # NoImage
                   THEN /\ news_groups' = [news_groups EXCEPT ![g].image_url = new_image_url]
                        /\ last' = StepApi("image", g, "updated", Api(NoEditorCall, ic))
                   ELSE /\ last' = StepApi("image", g, "failed", Api(NoEditorCall, ic))
                        /\ UNCHANGED news_groups
                /\ UNCHANGED <<fetched_events, kb>>
    /\ UNCHANGED <<now, up, scheduled_posts, convVars, jobs, grouperVars, fired>>

(* ----------------------- scheduling conversation ---------------------- *)
\* Callback payloads the operator can send from the keyboards on display.
DecisionButtons ==
    { [kind |-> "decision", g |-> g] : g \in { x \in Groups : kb[x] >= 1 } }
CancelButton == [kind |-> "cancel_scheduling", g |-> 0]
ConfirmButton == [kind |-> "confirm_schedule", g |-> 0]
SlotButton(s) == [kind |-> "time", g |-> 0, time_str |-> s]

\* the keyboard of the message a decision button sits on is replaced
PressedOn(data) ==
    IF data.kind = "decision" THEN [kb EXCEPT ![data.g] = @ - 1] ELSE kb

SetKey(d, k, v) == [x \in DOMAIN d \cup {k} |-> IF x = k THEN v ELSE d[x]]

\* entry point: CallbackQueryHandler(start_scheduling, pattern='^schedule:')
StartScheduling(g) ==
    /\ DecisionPressed(g) /\ conv = "END"
    /\ user_data' = SetKey(user_data, "scheduling_group_id", g)
    /\ slots' = { strftime(t) : t \in suggested_times(now) }
    /\ kb' = [kb EXCEPT ![g] = @ - 1]
    /\ conv' = "SCHEDULE_TIME"
    /\ last' = Step("schedule", g, "offered")
    /\ UNCHANGED <<now, up, store, news_groups, jobs, grouperVars, fired>>

\* SCHEDULE_TIME: [CallbackQueryHandler(select_time)] takes every callback
\* query of the operator while the conversation is in that state.
SelectTime(data) ==
    /\ up /\ gpc["cmd"] = "idle" /\ conv = "SCHEDULE_TIME"
    /\ IF data.kind = "cancel_scheduling"
       THEN /\ conv' = "END"
            /\ last' = StepBtn("select_time", 0, "cancelled", data.kind)
            /\ UNCHANGED <<user_data, kb>>
       ELSE /\ user_data' = SetKey(user_data, "scheduled_time",
                                   IF data.kind = "time" THEN data.time_str
                                   ELSE [ok |-> FALSE, minute |-> 0])
            /\ kb' = PressedOn(data)
            /\ conv' = "SCHEDULE_CONFIRM"
            /\ last' = StepBtn("select_time", data.g,
                                IF data.kind = "time" THEN "selected" ELSE "garbage",
                                data.kind)
    /\ slots' = {}
    /\ UNCHANGED <<now, up, store, news_groups, jobs, grouperVars, fired>>

\* SCHEDULE_CONFIRM: [CallbackQueryHandler(confirm_schedule)] takes every
\* callback query in that state; confirm_schedule does not read query.data.
ConfirmSchedule(data, postOk, flagOk) ==
    /\ up /\ gpc["cmd"] = "idle" /\ conv = "SCHEDULE_CONFIRM"
    /\ conv' = "END"
    /\ kb' = PressedOn(data)
    /\ slots' = slots
    /\ LET group_id == user_data["scheduling_group_id"]
           time_str == user_data["scheduled_time"]
       IN  IF ~HasSession(group_id)
           THEN /\ last' = StepBtn("confirm", group_id, "not_found", data.kind)
                /\ UNCHANGED <<store, jobs, user_data>>
           ELSE IF ~time_str.ok
           THEN /\ last' = StepBtn("confirm", group_id, "error", data.kind)
                /\ UNCHANGED <<store, jobs, user_data>>
           ELSE LET scheduled_time == strptime(time_str)
                    result == news_groups[group_id].editor_result
                    title == PostTitle(result)
                    body == PostBody(result)
                    image_url == news_groups[group_id].image_url
                IN  /\ postOk => Len(scheduled_posts) < MaxPosts
                    /\ BagCardinality(jobs) < MaxPosts
                    /\ scheduled_posts' = schedule_post(scheduled_posts, group_id,
                                              scheduled_time, title, body, image_url, postOk)
                    /\ fetched_events' = update_news_status_by_group(
                                              fetched_events, group_id, "TRUE", flagOk)
                    /\ jobs' = jobs (+) SetToBag({JobOf(group_id, scheduled_time,
                                                        title, body, image_url)})
                    /\ user_data' = <<>>
                    /\ last' = StepBtn("confirm", group_id,
                                        IF postOk /\ flagOk THEN "scheduled" ELSE "store_error",
                                        data.kind)
    /\ UNCHANGED <<now, up, news_groups, grouperVars, fired>>

(* -------------------------- deferred publish -------------------------- *)
\* post_scheduled_content with a job that stays queued when the publish fails
Fire_Retry(job, pubOk, dbOk) ==
    /\ up /\ BagIn(job, jobs) /\ job.when <= now
    /\ jobs' = IF pubOk THEN jobs (-) SetToBag({job}) ELSE jobs
    /\ scheduled_posts' = IF pubOk
                          THEN update_post_status(scheduled_posts, job.group_id, TRUE, dbOk)
                          ELSE scheduled_posts
    /\ fired' = fired \cup {[job |-> job, ok |-> pubOk]}
    /\ last' = StepSent("fire", job.group_id,
                         IF ~pubOk THEN "publish_failed"
                         ELSE IF dbOk THEN "published" ELSE "published_unrecorded",
                         Publish(job.title, job.body, job.image_url))
    /\ UNCHANGED <<now, up, fetched_events, news_groups, convVars, kb, grouperVars>>

\* post_scheduled_content, run by the job queue once the job is due
Fire(job, pubOk, dbOk) ==
    /\ up /\ BagIn(job, jobs) /\ job.when <= now
    /\ jobs' = jobs (-) SetToBag({job})
    /\ scheduled_posts' = IF pubOk
                          THEN update_post_status(scheduled_posts, job.group_id, TRUE, dbOk)
                          ELSE scheduled_posts
    /\ fired' = fired \cup {[job |-> job, ok |-> pubOk]}
    /\ last' = StepSent("fire", job.group_id,
                         IF ~pubOk THEN "publish_failed"
                         ELSE IF dbOk THEN "published" ELSE "published_unrecorded",
                         Publish(job.title, job.body, job.image_url))
    /\ UNCHANGED <<now, up, fetched_events, news_groups, convVars, kb, grouperVars>>

(* --------------------------- crash and start -------------------------- *)
\* The process stops: everything it held in memory is lost.
Crash ==
    /\ up
    /\ up' = FALSE
    /\ news_groups' = <<>>
    /\ user_data' = <<>>
    /\ conv' = "END"
    /\ slots' = {}
    /\ jobs' = EmptyBag
    /\ gpc' = [i \in Invokers |-> "idle"]
    /\ gids' = NoInvocation
    /\ gfiltered' = NoInvocation
    /\ groups' = NoInvocation
    /\ last' = Step("crash", 0, "")
    /\ UNCHANGED <<now, store, kb, fired>>

\* the loop of main() without the comparison with datetime.now()
RECURSIVE ArmJobs_Overdue(_, _, _)
ArmJobs_Overdue(sp, ids, t) ==
    IF ids = {} THEN EmptyBag
    ELSE LET i == CHOOSE x \in ids : TRUE
         IN  ArmJobs_Overdue(sp, ids \ {i}, t) (+) SetToBag({JobOfRow(sp[i])})

\* main(): for post in get_scheduled_posts(): if post['scheduled_time'] > now
RECURSIVE ArmJobs(_, _, _)
ArmJobs(sp, ids, t) ==
    IF ids = {} THEN EmptyBag
    ELSE LET i == CHOOSE x \in ids : TRUE
             rest == ArmJobs(sp, ids \ {i}, t)
         IN  IF sp[i].scheduled_time > t
             THEN rest (+) SetToBag({JobOfRow(sp[i])})
             ELSE rest

Start(readOk) ==
    /\ ~up
    /\ up' = TRUE
    /\ jobs' = ArmJobs(scheduled_posts, get_scheduled_posts(scheduled_posts, readOk), now)
    /\ last' = Step("start", 0, IF readOk THEN "loaded" ELSE "error")
    /\ UNCHANGED <<now, store, news_groups, convVars, kb, grouperVars, fired>>

(* ------------------------- the two API clients ------------------------ *)
\* What the provider can do on one exchange, and the scripts of exchanges
\* one generate call can meet.
EditorReplies ==
    { TransientFailure, Reply(""), Reply(DenyText), Unfinished(ApproveText1),
      Reply(ApproveText1), Reply(ProseText) }

\* a call of call_editor_api(news_group) by process_news or button_handler;
\* eo is what the call does on the exchanges it meets
CallEditor(eo) ==
    /\ up
    /\ last' = StepApi("call_editor_api", 0, eo.kind, Api(eo, NoImageCall))
    /\ UNCHANGED <<now, up, store, news_groups, convVars, kb, jobs, grouperVars, fired>>

\* a call of generate_image(prompt) by process_news or button_handler
GenerateImage(prompt, answers) ==
    /\ up
    /\ last' = StepApi("generate_image", 0,
                       IF generate_image_call(prompt, answers).image_url = NoImage
                       THEN "none" ELSE "url",
                       Api(NoEditorCall, generate_image_call(prompt, answers)))
    /\ UNCHANGED <<now, up, store, news_groups, convVars, kb, jobs, grouperVars, fired>>

(* ------------------------------ the system ---------------------------- *)
ImageAnswers == {"img1", "img2", NoImage}

Ok1 == call_editor_api(<<Reply(ApproveText1)>>)
Ok2 == call_editor_api(<<Reply(ApproveText2)>>)
Deny == call_editor_api(<<Reply(DenyReasonText)>>)
Unavailable == call_editor_api(<<TransientFailure>>)
\* the provider answers every exchange with the bare deny object
DenyBare ==
    call_editor_api(<<Reply(DenyText), Reply(DenyText), Reply(DenyText), Reply(DenyText)>>)

\* The review workflow: the monitor, the periodic poll, the operator's
\* decisions and the scheduling conversation.
Next ==
    \/ \E id \in ReportIds : Ingest(id, 1, 1)
    \/ GroupStart("poll", TRUE)
    \/ GroupFilter("poll", TRUE)
    \/ GroupFetch("poll", TRUE)
    \/ \E ok \in BOOLEAN : GroupMark("poll", ok)
    \/ \E eo \in {Ok1, Ok2, Deny, DenyBare, Unavailable}, img \in {"img1", NoImage} :
          ProcessGroup("poll", TRUE, eo, img, TRUE, TRUE, TRUE, TRUE)
    \/ \E dbOk, pubOk \in BOOLEAN : Approve(1, dbOk, pubOk)
    \/ \E dbOk \in BOOLEAN : Cancel(1, dbOk)
    \/ StartScheduling(1)
    \/ \E data \in DecisionButtons \cup {CancelButton} \cup { SlotButton(s) : s \in slots } :
          SelectTime(data)
    \/ \E data \in DecisionButtons \cup {CancelButton, ConfirmButton},
          postOk, flagOk \in BOOLEAN : ConfirmSchedule(data, postOk, flagOk)

Spec == Init /\ [][Next]_vars

\* The review workflow with regeneration: "again" and "image" put further
\* decision keyboards and new content on a live session.
NextRegen ==
    \/ \E id \in ReportIds : Ingest(id, 1, 1)
    \/ GroupStart("poll", TRUE)
    \/ GroupFilter("poll", TRUE)
    \/ GroupFetch("poll", TRUE)
    \/ GroupMark("poll", TRUE)
    \/ \E eo \in {Ok1, Deny, Unavailable} :
          ProcessGroup("poll", TRUE, eo, "img1", TRUE, TRUE, TRUE, TRUE)
    \/ \E pubOk \in BOOLEAN : Approve(1, TRUE, pubOk)
    \/ Cancel(1, TRUE)
    \/ \E eo \in EditorOutcomes, img \in ImageAnswers : Again(1, eo, img, TRUE)
    \/ \E img \in ImageAnswers : Image(1, img)

SpecRegen == Init /\ [][NextRegen]_vars

\* Two grouper invocations side by side: the poll job on the job thread and
\* /checknews on the dispatcher thread.
NextGrouper ==
    \/ \E id \in ReportIds, g \in Groups, d \in 1..2 : Ingest(id, g, d)
    \/ \E i \in Invokers : GroupStart(i, TRUE)
    \/ \E i \in Invokers : GroupFilter(i, TRUE)
    \/ \E i \in Invokers : GroupFetch(i, TRUE)
    \/ \E i \in Invokers : GroupMark(i, TRUE)
    \/ \E i \in Invokers : ProcessGroup(i, TRUE, Unavailable, NoImage, TRUE, TRUE, TRUE, TRUE)

SpecGrouper == Init /\ [][NextGrouper]_vars

\* Deferred publishing: scheduling, the clock, the job queue, crash and
\* restart of the process.  It starts where the pipeline has left every
\* group: claimed, with a session awaiting the operator's decision.
AwaitingSession(g) ==
    IF g = 1
    THEN Session(<<g>>, [resolution |-> "approve",
                         post |-> Post("T1", "B1 long body", "P1")], "img1")
    ELSE Session(<<g>>, [resolution |-> "approve",
                         post |-> Post("T2", "B2 long body", "")], NoImage)

InitSched ==
    /\ now = 0
    /\ up = TRUE
    /\ fetched_events = [g \in Groups |->
                            [groupId |-> g, eventDate |-> 1, isPosted |-> "FALSE"]]
    /\ scheduled_posts = <<>>
    /\ news_groups = [g \in Groups |-> AwaitingSession(g)]
    /\ user_data = <<>>
    /\ conv = "END"
    /\ slots = {}
    /\ kb = [g \in Groups |-> 1]
    /\ jobs = EmptyBag
    /\ gpc = [i \in Invokers |-> "idle"]
    /\ gids = NoInvocation
    /\ gfiltered = NoInvocation
    /\ groups = NoInvocation
    /\ fired = {}
    /\ last = Step("init", 0, "")

NextSched ==
    \/ \E g \in Groups : StartScheduling(g)
    \/ \E data \in {CancelButton} \cup { SlotButton(s) : s \in slots } : SelectTime(data)
    \/ \E postOk, flagOk \in BOOLEAN : ConfirmSchedule(ConfirmButton, postOk, flagOk)
    \/ Tick
    \/ \E job \in DOMAIN jobs, pubOk, dbOk \in BOOLEAN : Fire(job, pubOk, dbOk)
    \/ Crash
    \/ \E readOk \in BOOLEAN : Start(readOk)

SpecSched == InitSched /\ [][NextSched]_vars

\* The two API clients on their own: every script of provider behaviour.
NextApi ==
    \/ \E eo \in { call_editor_api(replies) :
                      replies \in [1..(EditorRetries + 1) -> EditorReplies] } : CallEditor(eo)
    \/ \E prompt \in {"", " ", "P1"}, answers \in [1..(ImageRetries + 1) -> {NoImage, "img1"}] :
          GenerateImage(prompt, answers)

SpecApi == Init /\ [][NextApi]_vars

\* A batch in the pipeline.  It starts where the grouper of the poll job
\* has left it: one report per group, marked as processed, every group in
\* the mapping handed to process_news.
InitClaimed ==
    /\ now = 0
    /\ up = TRUE
    /\ fetched_events = [g \in Groups |->
                            [groupId |-> g, eventDate |-> 1, isPosted |-> "FALSE"]]
    /\ scheduled_posts = <<>>
    /\ news_groups = <<>>
    /\ user_data = <<>>
    /\ conv = "END"
    /\ slots = {}
    /\ kb = [g \in Groups |-> 0]
    /\ jobs = EmptyBag
    /\ gpc = [i \in Invokers |-> IF i = "poll" THEN "process" ELSE "idle"]
    /\ gids = NoInvocation
    /\ gfiltered = NoInvocation
    /\ groups = [i \in Invokers |->
                    IF i = "poll"
                    THEN [g \in Groups |-> [group_id |-> g, news_group |-> <<g>>]]
                    ELSE <<>>]
    /\ fired = {}
    /\ last = Step("init", 0, "")

NextBatch ==
    \/ \E sendOk, markOk, denyOk, postOk, notifyOk \in BOOLEAN,
          eo \in EditorOutcomes \cup {DenyBare}, img \in {"img1", NoImage} :
          ProcessGroup("poll", sendOk, eo, img, markOk, denyOk, postOk, notifyOk)
    \/ \E g \in Groups, pubOk \in BOOLEAN : Approve(g, TRUE, pubOk)
    \/ \E g \in Groups : Cancel(g, TRUE)

SpecBatch == InitClaimed /\ [][NextBatch]_vars

\* A batch whose text generation succeeds while the image service may
\* fail, followed up to the publication: at once or deferred.
NextDegrade ==
    \/ \E img \in {"img1", NoImage} :
          ProcessGroup("poll", TRUE, Ok1, img, TRUE, TRUE, TRUE, TRUE)
    \/ \E g \in Groups, pubOk \in BOOLEAN : Approve(g, TRUE, pubOk)
    \/ \E g \in Groups : StartScheduling(g)
    \/ \E data \in {CancelButton} \cup { SlotButton(s) : s \in slots } : SelectTime(data)
    \/ ConfirmSchedule(ConfirmButton, TRUE, TRUE)
    \/ Tick
    \/ \E job \in DOMAIN jobs, pubOk \in BOOLEAN : Fire(job, pubOk, TRUE)

SpecDegrade == InitClaimed /\ [][NextDegrade]_vars

\* Decisions on keyboards that have outlived their session: the process
\* is stopped and started while posts await a decision, and the operator
\* goes on pressing the buttons still on display.
NextStale ==
    \/ Crash
    \/ Start(TRUE)
    \/ \E g \in Groups : Approve(g, TRUE, TRUE)
    \/ \E g \in Groups : Cancel(g, TRUE)
    \/ \E g \in Groups : Again(g, Unavailable, NoImage, TRUE)
    \/ \E g \in Groups : Image(g, "img2")
    \/ \E g \in Groups : StartScheduling(g)
    \/ \E data \in {CancelButton} \cup { SlotButton(s) : s \in slots } : SelectTime(data)
    \/ ConfirmSchedule(ConfirmButton, TRUE, TRUE)

SpecStale == InitSched /\ [][NextStale]_vars

\* The grouper on its own, over every table of MaxRows reports of one
\* group, each with an event date and a flag that is unset or true.
InitWindow ==
    /\ now = 0
    /\ up = TRUE
    /\ fetched_events \in
          [1..MaxRows -> { [groupId |-> 1, eventDate |-> d, isPosted |-> f] :
                              d \in 1..3, f \in {"NULL", "TRUE"} }]
    /\ scheduled_posts = <<>>
    /\ news_groups = <<>>
    /\ user_data = <<>>
    /\ conv = "END"
    /\ slots = {}
    /\ kb = [g \in Groups |-> 0]
    /\ jobs = EmptyBag
    /\ gpc = [i \in Invokers |-> "idle"]
    /\ gids = NoInvocation
    /\ gfiltered = NoInvocation
    /\ groups = NoInvocation
    /\ fired = {}
    /\ last = Step("init", 0, "")

NextWindow ==
    \/ GroupStart("poll", TRUE)
    \/ GroupFilter("poll", TRUE)
    \/ GroupFetch("poll", TRUE)
    \/ GroupMark("poll", TRUE)
    \/ ProcessGroup("poll", TRUE, Unavailable, NoImage, TRUE, TRUE, TRUE, TRUE)

SpecWindow == InitWindow /\ [][NextWindow]_vars

\* The editor client against a provider that answers every exchange of a
\* call with the same text, finished or not.
NextParse ==
    \/ \E eo \in { call_editor_api(Repeated(Reply(text))) : text \in ReplyTexts } :
          CallEditor(eo)
    \/ \E eo \in { call_editor_api(Repeated(Unfinished(text))) : text \in ReplyTexts } :
          CallEditor(eo)

SpecParse == Init /\ [][NextParse]_vars

\* Two posts await a decision; the operator schedules one of them and
\* presses buttons of the other post's keyboard before finishing.
NextCross ==
    \/ \E g \in Groups : Approve(g, TRUE, TRUE)
    \/ \E g \in Groups : Cancel(g, TRUE)
    \/ \E g \in Groups : StartScheduling(g)
    \/ \E data \in DecisionButtons \cup {CancelButton} \cup { SlotButton(s) : s \in slots } :
          SelectTime(data)
    \/ \E data \in DecisionButtons \cup {CancelButton, ConfirmButton} :
          ConfirmSchedule(data, TRUE, TRUE)
    \/ Tick

SpecCross == InitSched /\ [][NextCross]_vars

\* A post that is regenerated and scheduled more than once: each
\* regeneration puts a further decision keyboard on display, and each
\* keyboard can start a scheduling of the same group.
NextTwice ==
    \/ Again(1, Ok2, NoImage, TRUE)
    \/ StartScheduling(1)
    \/ \E data \in { SlotButton(s) : s \in slots } : SelectTime(data)
    \/ ConfirmSchedule(ConfirmButton, TRUE, TRUE)
    \/ Tick
    \/ \E job \in DOMAIN jobs, pubOk \in BOOLEAN : Fire(job, pubOk, TRUE)

SpecTwice == InitSched /\ [][NextTwice]_vars

\* One grouper invocation of the poll job over reports of every group,
\* with a store whose queries and updates can fail.
NextClaim ==
    \/ \E id \in ReportIds, g \in Groups : Ingest(id, g, 1)
    \/ \E ok \in BOOLEAN : GroupStart("poll", ok)
    \/ \E ok \in BOOLEAN : GroupFilter("poll", ok)
    \/ \E ok \in BOOLEAN : GroupFetch("poll", ok)
    \/ \E ok \in BOOLEAN : GroupMark("poll", ok)

SpecClaim == Init /\ [][NextClaim]_vars

\* The pipeline under its scheduling: the poll job runs every minute, so
\* each step of the grouper and of process_news that can be taken is taken
\* in the end, and the editor service answers with a valid approve result
\* again and again (its failures are transient).
NextLive ==
    \/ \E id \in ReportIds, g \in Groups : Ingest(id, g, 1)
    \/ GroupStart("poll", TRUE)
    \/ GroupFilter("poll", TRUE)
    \/ GroupFetch("poll", TRUE)
    \/ GroupMark("poll", TRUE)
    \/ \E eo \in {Ok1, Unavailable} :
          ProcessGroup("poll", TRUE, eo, "img1", TRUE, TRUE, TRUE, TRUE)

FairLive ==
    /\ WF_vars(GroupStart("poll", TRUE))
    /\ WF_vars(GroupFilter("poll", TRUE))
    /\ WF_vars(GroupFetch("poll", TRUE))
    /\ WF_vars(GroupMark("poll", TRUE))
    /\ WF_vars(\E eo \in {Ok1, Unavailable} :
                  ProcessGroup("poll", TRUE, eo, "img1", TRUE, TRUE, TRUE, TRUE))
    /\ SF_vars(ProcessGroup("poll", TRUE, Ok1, "img1", TRUE, TRUE, TRUE, TRUE))

SpecLive == Init /\ [][NextLive]_vars /\ FairLive

\* Callback queries and who sends them.  No callback handler is wrapped in
\* admin_only and none reads update.effective_user: the dispatcher hands
\* the query of any user to the conversation handler or to button_handler.
\* The library keys the conversation and user_data by chat and user; the
\* model follows one conversation, that of whoever presses the buttons.
\* approve and cancel go through button_handler, which keeps no such key.
ADMIN_ID == "admin"
Users == {ADMIN_ID, "other"}
Payloads ==
    { [kind |-> k, g |-> g] : k \in {"approve", "cancel", "schedule"}, g \in Groups }
    \cup { SlotButton(s) : s \in slots } \cup {ConfirmButton}
CallbackQuery(user, data) ==
    \/ data.kind = "schedule" /\ StartScheduling(data.g)
    \/ data.kind = "time" /\ SelectTime(data)
    \/ data.kind = "confirm_schedule" /\ ConfirmSchedule(data, TRUE, TRUE)
    \/ data.kind = "approve" /\ Approve(data.g, TRUE, TRUE)
    \/ data.kind = "cancel" /\ Cancel(data.g, TRUE)

NextSender ==
    \/ \E user \in Users, data \in Payloads : CallbackQuery(user, data)
    \/ Tick

SpecSender == InitSched /\ [][NextSender]_vars

(* ============================== properties ============================ *)

(* C1: once approve has published, cancel has rejected or a confirmation  *)
(* has scheduled a group, the session store holds no session for that     *)
(* group any more.                                                         *)
C1_SessionDestroyed ==
    (last.op \in {"approve", "cancel", "confirm"}
       /\ last.out \in {"published", "rejected", "scheduled"})
    => ~HasSession(last.g)

(* C2: of two decisions handled one right after the other for the same    *)
(* group, the first one resolving it, the second one is rejected as       *)
(* not found.                                                              *)
C2_ExactlyOneDecision ==
    [][(/\ last.op \in {"approve", "cancel"}
        /\ last.out \in {"published", "rejected"}
        /\ last'.op \in {"approve", "cancel"}
        /\ last'.g = last.g)
       => last'.out = "not_found"]_vars

(* C3: no group id is in the mapping that the poll job hands to the       *)
(* pipeline and at the same time in the mapping that /checknews hands to  *)
(* the pipeline.                                                           *)
Returned(i) ==
    IF gpc[i] = "process"
    THEN { groups[i][k].group_id : k \in DOMAIN groups[i] } ELSE {}
C3_OneClaimant == Returned("poll") \cap Returned("cmd") = {}

(* C4: in every step, every stored report stays stored, a flag that is    *)
(* set does not go back to unset, and a flag that is true stays true.     *)
C4_FlagMonotonic ==
    [][\A id \in DOMAIN fetched_events :
          /\ id \in DOMAIN fetched_events'
          /\ fetched_events[id].isPosted # "NULL"
                => fetched_events'[id].isPosted # "NULL"
          /\ fetched_events[id].isPosted = "TRUE"
                => fetched_events'[id].isPosted = "TRUE"]_vars

\* a cancel has been handled for a group that has a published report, and
\* the report is still flagged true
C4_Witness ==
    \E id \in DOMAIN fetched_events :
        /\ fetched_events[id].isPosted = "TRUE"
        /\ last = Step("cancel", fetched_events[id].groupId, "rejected")

(* C5: an approve whose publish call fails leaves every report's flag as  *)
(* it was.                                                                 *)
C5_FlagOnlyAfterPublish ==
    [][(last'.op = "approve" /\ last'.out = "publish_failed")
       => fetched_events' = fetched_events]_vars

(* C6: the cancel button pressed while the conversation awaits the        *)
(* confirmation creates no scheduled post, registers no job and changes   *)
(* no report flag.                                                         *)
C6_CancelHasNoEffect ==
    [][(/\ conv = "SCHEDULE_CONFIRM"
        /\ last'.op = "confirm"
        /\ last'.btn = "cancel_scheduling")
       => /\ scheduled_posts' = scheduled_posts
          /\ jobs' = jobs
          /\ fetched_events' = fetched_events]_vars

(* C7: a confirmation handled for a live session with a selected slot,    *)
(* the store accepting the writes, appends exactly one row with           *)
(* is_posted = false that carries the session's title, body and image_url *)
(* and the selected time, flags every report of the group true and adds   *)
(* exactly one job with the same payload and time.                        *)
C7_ConfirmSchedules ==
    [][(conv = "SCHEDULE_CONFIRM" /\ last'.op = "confirm" /\ last'.out = "scheduled")
       => LET g == user_data["scheduling_group_id"]
              when == user_data["scheduled_time"].minute * SubTicks
              result == news_groups[g].editor_result
              title == IF result.post.present THEN result.post.title ELSE "DefaultTitle"
              body == IF result.post.present THEN result.post.body ELSE ""
              image_url == news_groups[g].image_url
          IN  /\ scheduled_posts' =
                    Append(scheduled_posts,
                           [group_id |-> g, scheduled_time |-> when, title |-> title,
                            body |-> body, image_url |-> image_url, is_posted |-> FALSE])
              /\ \A id \in DOMAIN fetched_events' :
                    fetched_events'[id].groupId = g
                       => fetched_events'[id].isPosted = "TRUE"
              /\ jobs' = jobs (+) SetToBag({[group_id |-> g, when |-> when,
                                             title |-> title, body |-> body,
                                             image_url |-> image_url]})]_vars

\* the confirm button has scheduled a post with an illustration
C7_Witness ==
    /\ last = StepBtn("confirm", 1, "scheduled", "confirm_schedule")
    /\ scheduled_posts # <<>>
    /\ LET row == scheduled_posts[Len(scheduled_posts)]
       IN  /\ row.image_url = "img1" /\ row.title = "T1" /\ ~row.is_posted
           /\ BagIn(JobOfRow(row), jobs)
    /\ \E id \in DOMAIN fetched_events : fetched_events[id].isPosted = "TRUE"

(* C8: after a start that has loaded the table, every scheduled post that *)
(* is unposted and whose job has not run yet has a job in the queue,      *)
(* whenever the process was stopped and started.                          *)
Attempted(row) == \E f \in fired : f.job = JobOfRow(row)
C9_ResumeArmsExactly ==
    (last.op = "start" /\ last.out = "loaded")
    => \A j \in DOMAIN jobs \cup
                { [group_id |-> scheduled_posts[i].group_id,
                   when |-> scheduled_posts[i].scheduled_time,
                   title |-> scheduled_posts[i].title,
                   body |-> scheduled_posts[i].body,
                   image_url |-> scheduled_posts[i].image_url] : i \in DOMAIN scheduled_posts } :
          CopiesIn(j, jobs) =
             Cardinality({ i \in DOMAIN scheduled_posts :
                             /\ scheduled_posts[i].is_posted = FALSE
                             /\ scheduled_posts[i].scheduled_time > now
                             /\ scheduled_posts[i].group_id = j.group_id
                             /\ scheduled_posts[i].scheduled_time = j.when
                             /\ scheduled_posts[i].title = j.title
                             /\ scheduled_posts[i].body = j.body
                             /\ scheduled_posts[i].image_url = j.image_url })

\* a start has armed one post and left an overdue unposted one without job
C9_Witness ==
    /\ last.op = "start" /\ last.out = "loaded"
    /\ jobs # EmptyBag
    /\ \E i \in DOMAIN scheduled_posts :
          /\ ~scheduled_posts[i].is_posted
          /\ scheduled_posts[i].scheduled_time <= now
          /\ ~BagIn(JobOfRow(scheduled_posts[i]), jobs)

Retryable(reply) ==
    /\ ~reply.fail
    /\ (reply.text = "" \/ Len(reply.text) < MinReplyLen \/ ~reply.stop_reason)
C11_ThreeAttempts ==
    last.op = "call_editor_api"
    => /\ last.api.editor_calls <= 3
       /\ (\A k \in DOMAIN last.api.replies : Retryable(last.api.replies[k]))
          => (last.api.editor_calls = 3 /\ last.out = "raise")

(* C12: in a generate call, an exchange before the third that fails with  *)
(* a timeout, a connection error or an HTTP 5xx is followed by another    *)
(* exchange.                                                               *)
C12_TransientRetried ==
    last.op = "call_editor_api"
    => \A k \in DOMAIN last.api.replies :
          (last.api.replies[k].fail /\ k < 3) => last.api.editor_calls > k

(* C16: generate_image on a prompt that is not blank calls the service a  *)
(* second time when the first call fails and returns None only after 2    *)
(* failed calls; on a blank prompt it returns None without any call.      *)
C16_ImageRetried ==
    last.op = "generate_image"
    => /\ Blank(last.api.prompt) => (last.api.image_calls = 0 /\ last.out = "none")
       /\ (~Blank(last.api.prompt) /\ last.api.answers[1] = NoImage)
          => last.api.image_calls >= 2
       /\ (~Blank(last.api.prompt) /\ last.out = "none") => last.api.image_calls = 2

(* C13: a pass of process_news in which the provider's reply is the bare  *)
(* deny object ends with the group denied, every report of the group      *)
(* flagged false and nothing handed to the channel.                       *)
C13_BareDenyRejects ==
    [][(/\ last'.op = "process"
        /\ last'.api.replies # <<>>
        /\ \A k \in DOMAIN last'.api.replies : last'.api.replies[k] = Reply(DenyText))
       => /\ last'.out = "denied"
          /\ \A id \in DOMAIN fetched_events' :
                fetched_events'[id].groupId = last'.g
                   => fetched_events'[id].isPosted = "FALSE"
          /\ last'.sent = NoMessage]_vars

(* C18: a pass of process_news over a group that is not the last of its   *)
(* batch leaves the later groups of the batch to be processed.            *)
C18_BatchContinues ==
    [][(/\ last'.op = "process"
        /\ gpc["poll"] = "process"
        /\ Len(groups["poll"]) >= 2)
       => /\ gpc'["poll"] = "process"
          /\ groups'["poll"] = Tail(groups["poll"])]_vars

(* C17: a pass of process_news whose editor result is a valid approve and *)
(* whose image call fails stores the session with image_url null and      *)
(* shows the post; an approve and a deferred job for content without      *)
(* image_url hand title and body to the channel as a text message.        *)
C17_PublishWithoutImage ==
    [][/\ (/\ last'.op = "process"
           /\ last'.api.image_calls >= 1
           /\ last'.api.answers = <<NoImage>>)
          => /\ last'.out = "awaiting"
             /\ last'.g \in DOMAIN news_groups'
             /\ news_groups'[last'.g].image_url = NoImage
             /\ news_groups'[last'.g].editor_result = Ok1.result
       /\ (/\ last'.op = "approve"
           /\ HasSession(last'.g)
           /\ news_groups[last'.g].image_url = NoImage)
          => last'.sent =
                [method |-> "send_message",
                 title |-> news_groups[last'.g].editor_result.post.title,
                 body |-> news_groups[last'.g].editor_result.post.body,
                 photo |-> NoImage]
       /\ last'.op = "fire"
          => \E job \in DOMAIN jobs :
                /\ job.group_id = last'.g
                /\ jobs' = jobs (-) SetToBag({job})
                /\ job.image_url = NoImage
                   => last'.sent = [method |-> "send_message", title |-> job.title,
                                    body |-> job.body, photo |-> NoImage]]_vars

\* a deferred job has published, as a text message, a post whose editor
\* result asked for an illustration
C17_Witness ==
    /\ last.op = "fire" /\ last.out = "published"
    /\ last.sent.method = "send_message"
    /\ last.sent.title = "T1"
    /\ HasSession(last.g)
    /\ news_groups[last.g].editor_result.post.illustration = "P1"
    /\ news_groups[last.g].image_url = NoImage

(* C14: an "again" that fails (editor unavailable, no usable reply, a     *)
(* result without post, an empty or too short title or body, an           *)
(* exception) leaves the session store as it was.                         *)
C14_AgainFailureKeepsSession ==
    [][(/\ last'.op = "again"
        /\ last'.out \in {"failed", "error", "incomplete", "too_short"})
       => news_groups' = news_groups]_vars

(* C15: an "image" decision on a live session makes no call to the        *)
(* editor, keeps the session with its reports and editor_result, and      *)
(* keeps image_url too when the image generation fails.                   *)
C15_ImageKeepsText ==
    [][(last'.op = "image" /\ HasSession(last'.g))
       => /\ last'.api.editor_calls = 0
          /\ last'.g \in DOMAIN news_groups'
          /\ news_groups'[last'.g].editor_result = news_groups[last'.g].editor_result
          /\ news_groups'[last'.g].news_group = news_groups[last'.g].news_group
          /\ last'.out = "failed" => news_groups' = news_groups]_vars

\* an "image" decision whose call to the service failed, on a session that
\* has kept its earlier image
C15_Witness ==
    /\ last.op = "image" /\ last.out = "failed"
    /\ last.api.image_calls = 1
    /\ HasSession(last.g)
    /\ news_groups[last.g].image_url = "img1"

(* C19: approve, cancel, again, image and the schedule confirmation, for  *)
(* a group that has no session, end as not found and leave the report     *)
(* flags, the scheduled posts, the job queue and the session store as     *)
(* they were, with no call to the editor or the image service and         *)
(* nothing handed to the channel.                                         *)
C19_StaleDecision ==
    [][(/\ last'.op \in {"approve", "cancel", "again", "image", "confirm"}
        /\ ~HasSession(last'.g))
       => /\ last'.out = "not_found"
          /\ fetched_events' = fetched_events
          /\ scheduled_posts' = scheduled_posts
          /\ jobs' = jobs
          /\ news_groups' = news_groups
          /\ last'.api = NoApi
          /\ last'.sent = NoMessage]_vars

\* after a restart the operator has gone through the scheduling dialogue
\* for a post whose session is gone, and the confirmation was not found
C19_Witness ==
    /\ last.op = "confirm" /\ last.out = "not_found"
    /\ ~HasSession(last.g)
    /\ scheduled_posts = <<>>
    /\ jobs = EmptyBag
    /\ \E id \in DOMAIN fetched_events :
          fetched_events[id].groupId = last.g /\ fetched_events[id].isPosted = "FALSE"

(* C20: the list the grouper fetches for a group holds min(3, number of   *)
(* unset reports of the group) distinct unset reports of that group, in   *)
(* ascending order of event date, and no unset report left out is later   *)
(* than one in the list.                                                   *)
C20_LastThreeAscending ==
    [][(last'.op = "group_fetch" /\ last'.out = "poll")
       => LET entry == groups'["poll"][Len(groups'["poll"])]
              s == entry.news_group
              unset == { id \in DOMAIN fetched_events :
                           /\ fetched_events[id].groupId = entry.group_id
                           /\ fetched_events[id].isPosted = "NULL" }
              listed == { s[k] : k \in DOMAIN s }
          IN  /\ Len(s) <= 3
              /\ Len(s) = IF Cardinality(unset) < 3 THEN Cardinality(unset) ELSE 3
              /\ listed \subseteq unset
              /\ \A j, k \in DOMAIN s :
                    j < k => /\ s[j] # s[k]
                             /\ fetched_events[s[j]].eventDate
                                   <= fetched_events[s[k]].eventDate
              /\ \A id \in unset \ listed : \A k \in DOMAIN s :
                    fetched_events[id].eventDate <= fetched_events[s[k]].eventDate]_vars

\* the fetch has returned three reports of different dates and has left
\* out an earlier unset report of the group
C20_Witness ==
    /\ last.op = "group_fetch" /\ last.out = "poll"
    /\ groups["poll"] # <<>>
    /\ LET s == groups["poll"][Len(groups["poll"])].news_group
       IN  /\ Len(s) = 3
           /\ fetched_events[s[1]].eventDate < fetched_events[s[2]].eventDate
           /\ \E id \in DOMAIN fetched_events :
                 /\ fetched_events[id].isPosted = "NULL"
                 /\ \A k \in DOMAIN s : s[k] # id
                 /\ fetched_events[id].eventDate < fetched_events[s[1]].eventDate

(* C21: a reply that passed the completeness tests and that is valid JSON *)
(* once its fence is stripped comes out of call_editor_api as the very    *)
(* structure json.loads makes of the stripped text.                       *)
C21_ValidReplyUnchanged ==
    (/\ last.op = "call_editor_api"
     /\ last.api.editor_calls >= 1
     /\ last.api.parsed[last.api.editor_calls]
     /\ json_loads(strip_fences(last.api.replies[last.api.editor_calls].text)).ok)
    => /\ last.out = "result"
       /\ last.api.json =
             json_loads(strip_fences(last.api.replies[last.api.editor_calls].text)).v

(* C22: the reply of the scenario, whose title has no closing quote,      *)
(* comes out of call_editor_api as a result with title X and body Y.      *)
C22_UnterminatedTitleRepaired ==
    (/\ last.op = "call_editor_api"
     /\ last.api.editor_calls >= 1
     /\ last.api.replies[1] = Reply(UnterminatedTitleText))
    => /\ last.out = "result"
       /\ as_result(last.api.json).post.title = "X"
       /\ as_result(last.api.json).post.body = "Y"

(* C29: in a generate call, a reply that is empty, shorter than 50        *)
(* characters or without stop_reason is not handed to the parser; while   *)
(* retries are left it is followed by another exchange, and after the     *)
(* last retry the call raises.                                            *)
C29_IncompleteNeverParsed ==
    last.op = "call_editor_api"
    => \A k \in DOMAIN last.api.replies :
          Retryable(last.api.replies[k])
          => /\ ~last.api.parsed[k]
             /\ k <= EditorRetries => last.api.editor_calls > k
             /\ k = EditorRetries + 1 => last.out = "raise"

\* a call whose first reply came without stop_reason and whose second
\* reply was parsed into the result
C29_Witness ==
    /\ last.op = "call_editor_api"
    /\ last.api.replies = <<Unfinished(ApproveText1), Reply(ApproveText1)>>
    /\ last.api.parsed = <<FALSE, TRUE>>
    /\ last.out = "result"

(* C23: a reply that passed the completeness tests and of which no repair *)
(* makes a structure ends the call with None: no exchange follows it, so  *)
(* a call whose first reply it is has made one exchange.  The pass of     *)
(* process_news ends as failed with one message to the operator, goes on  *)
(* with the rest of the batch, stores no session and writes no flag.      *)
Unparseable(reply) ==
    ~reply.fail /\ ~Retryable(reply) /\ ~Parsed[reply.text].ok
C23_UnparseableSkipsGroup ==
    [][(/\ last'.op = "process"
        /\ \E k \in DOMAIN last'.api.replies : Unparseable(last'.api.replies[k]))
       => /\ \A k \in DOMAIN last'.api.replies :
                Unparseable(last'.api.replies[k]) => k = last'.api.editor_calls
          /\ last'.out = "failed"
          /\ last'.notes = 1
          /\ last'.g \notin DOMAIN news_groups'
          /\ fetched_events' = fetched_events
          /\ groups'["poll"] = Tail(groups["poll"])]_vars

\* a pass over the first group of the batch whose only exchange brought
\* prose: one call, one message, no session, the second group still to do
C23_Witness ==
    /\ last.op = "process" /\ last.out = "failed"
    /\ last.api.replies = <<Reply(ProseText)>>
    /\ last.api.editor_calls = 1
    /\ last.notes = 1
    /\ last.g \notin DOMAIN news_groups
    /\ groups["poll"] # <<>>

(* C30: a pass of process_news that ends in a failure (status message not *)
(* sent, editor unavailable, reply unparseable, result incomplete or      *)
(* empty, exception) has sent exactly one message naming the group to the *)
(* operator.                                                              *)
C30_OneNotification ==
    (/\ last.op = "process"
     /\ last.out \in {"no_status", "failed", "incomplete", "empty", "error", "aborted"})
    => last.notes = 1

(* C24: in every step every scheduled post stays in the table with the    *)
(* scheduled_time it was created with, and an is_posted that is true      *)
(* stays true: the only change of a row is is_posted from false to true.  *)
C24_ScheduledPostImmutable ==
    [][/\ Len(scheduled_posts') >= Len(scheduled_posts)
       /\ \A i \in DOMAIN scheduled_posts :
             /\ scheduled_posts'[i].scheduled_time = scheduled_posts[i].scheduled_time
             /\ scheduled_posts'[i].group_id = scheduled_posts[i].group_id
             /\ scheduled_posts[i].is_posted => scheduled_posts'[i].is_posted]_vars

\* a job has published and its row, due at its slot, is recorded as posted
C24_Witness ==
    /\ last.op = "fire" /\ last.out = "published"
    /\ \E i \in DOMAIN scheduled_posts :
          /\ scheduled_posts[i].group_id = last.g
          /\ scheduled_posts[i].is_posted
          /\ scheduled_posts[i].scheduled_time > 0
          /\ scheduled_posts[i].scheduled_time <= now

(* C25: every slot offered by start_scheduling is strictly later than the *)
(* instant of the offer; a slot instant that is not later than now today  *)
(* is offered for the next day.                                           *)
C25_SlotsInFuture ==
    (last.op = "schedule" /\ last.out = "offered")
    => \A s \in slots : strptime(s) > now

(* C26: the flag of a report changes only from unset to false and from    *)
(* false to true; no step takes a flag from unset to true, whenever the   *)
(* report joined its group.                                               *)
C26_FlagSteps ==
    [][\A id \in DOMAIN fetched_events :
          (id \in DOMAIN fetched_events'
           /\ fetched_events'[id].isPosted # fetched_events[id].isPosted)
          => \/ /\ fetched_events[id].isPosted = "NULL"
                /\ fetched_events'[id].isPosted = "FALSE"
             \/ /\ fetched_events[id].isPosted = "FALSE"
                /\ fetched_events'[id].isPosted = "TRUE"]_vars

(* C27: a group selected by the first query of a grouper invocation that  *)
(* has a report with the flag unset when the filter loop examines it is   *)
(* kept for the fetch loop, which builds the returned mapping, whatever   *)
(* the flags of the other reports of the group.                           *)
C27_UnsetGroupReturned ==
    [][(/\ last'.op = "group_filter"
        /\ last'.out \in Invokers
        /\ UnpostedRows(fetched_events, last'.g) # {})
       => \E k \in DOMAIN gfiltered'[last'.out] :
             gfiltered'[last'.out][k] = last'.g]_vars

(* C28: a confirm step that did not persist a row in scheduled_posts      *)
(* registers no job and leaves the flags of the reports as they were; a   *)
(* job is registered and the flags are set only together with the row.    *)
C28_NoJobWithoutRow ==
    [][(/\ last'.op = "confirm"
        /\ Len(scheduled_posts') = Len(scheduled_posts))
       => /\ jobs' = jobs
          /\ fetched_events' = fetched_events]_vars

(* C31: whenever approve publishes a group, the session it publishes from *)
(* holds an editor_result with resolution approve, and the title and the  *)
(* body sent to the channel are not empty.                                *)
C31_PublishedFromApprove ==
    [][(last'.op = "approve" /\ last'.out = "published")
       => /\ news_groups[last'.g].editor_result.resolution = "approve"
          /\ last'.sent.title # ""
          /\ last'.sent.body # ""]_vars

(* C32: while the scheduling of one group awaits the choice of a slot or  *)
(* the confirmation, a decision button pressed on the keyboard of another *)
(* group leaves that scheduling where it is: the conversation state, the  *)
(* scheduling data, scheduled_posts, the jobs and the flags of the group  *)
(* being scheduled do not change.                                         *)
C32_OtherGroupLeavesScheduling ==
    [][(/\ conv \in {"SCHEDULE_TIME", "SCHEDULE_CONFIRM"}
        /\ last'.btn = "decision"
        /\ \E b \in Groups : /\ b # user_data["scheduling_group_id"]
                             /\ kb'[b] < kb[b])
       => /\ conv' = conv
          /\ user_data' = user_data
          /\ scheduled_posts' = scheduled_posts
          /\ jobs' = jobs
          /\ \A id \in DOMAIN fetched_events :
                fetched_events[id].groupId = user_data["scheduling_group_id"]
                => fetched_events'[id] = fetched_events[id]]_vars

(* C33: the is_posted of a row of scheduled_posts becomes true only when  *)
(* a run of the job with that row's payload (group, time, title, body,    *)
(* image) has published, also when the group has several unposted rows.   *)
C33_PostedOnlyAfterOwnPublish ==
    [][\A i \in DOMAIN scheduled_posts :
          (~scheduled_posts[i].is_posted /\ scheduled_posts'[i].is_posted)
          => [job |-> JobOfRow(scheduled_posts[i]), ok |-> TRUE] \in fired']_vars

(* C34: when a grouper invocation returns, the groups it has fetched and  *)
(* flagged false are the groups of the returned mapping: a fetched group  *)
(* whose reports it flagged is in the mapping, and every report of the    *)
(* mapping has been flagged, also when a store operation has failed.      *)
Flagged(ev, entry) ==
    \A n \in DOMAIN entry.news_group : ev[entry.news_group[n]].isPosted = "FALSE"
C34_ClaimedIffReturned ==
    [][\A i \in Invokers :
          (gpc[i] \in {"filter", "fetch", "mark"} /\ gpc'[i] \in {"idle", "process"})
          => /\ \A k \in DOMAIN groups[i] :
                   Flagged(fetched_events', groups[i][k])
                   => (k \in DOMAIN groups'[i] /\ groups'[i][k] = groups[i][k])
             /\ \A k \in DOMAIN groups'[i] :
                   Flagged(fetched_events', groups'[i][k])]_vars

(* C35: a group whose reports the grouper has flagged false has, in the   *)
(* end, a session the operator can decide on, or is published, also when  *)
(* its first generation attempt failed.                                   *)
C35_ClaimedGetsSession ==
    \A g \in Groups :
       (\E id \in DOMAIN fetched_events :
           fetched_events[id].groupId = g /\ fetched_events[id].isPosted = "FALSE")
       ~> (\/ HasSession(g)
           \/ \A id \in DOMAIN fetched_events :
                 fetched_events[id].groupId = g => fetched_events[id].isPosted = "TRUE")

(* C36: every row added to scheduled_posts has a scheduled_time later     *)
(* than the instant at which it is added, however long the operator took  *)
(* between the offer of the slots, the selection and the confirmation.    *)
C36_CreatedInFuture ==
    [][Len(scheduled_posts') > Len(scheduled_posts)
       => scheduled_posts'[Len(scheduled_posts')].scheduled_time > now']_vars

(* C37: a step that is the handling of a callback query (approve, cancel, *)
(* schedule, time selection, confirm) sent by a user other than the       *)
(* operator changes no session, no flag, no scheduled post and no job,    *)
(* and sends nothing to the channel.                                      *)
C37_OnlyOperatorActs ==
    [][\A user \in Users \ {ADMIN_ID} : \A data \in Payloads :
          CallbackQuery(user, data)
          => /\ news_groups' = news_groups
             /\ fetched_events' = fetched_events
             /\ scheduled_posts' = scheduled_posts
             /\ jobs' = jobs
             /\ user_data' = user_data
             /\ last'.sent = NoMessage]_vars

====
